---------------------------- MODULE Spec2Model ----------------------------
(***************************************************************************)
(* PathsMap<V>, the prefix-sharing trie of edge-id sequences of            *)
(* milli/src/search/new/ranking_rule_graph/paths_map.rs.                   *)
(*                                                                         *)
(* A PathsMap is modelled as the record                                    *)
(*     [nodes |-> <<  <<edge, PathsMap>>, ... >>, value |-> Option]        *)
(* where `nodes` is the Vec<(u32, PathsMap<V>)> in sibling order and an    *)
(* Option<V> is the empty tuple (None) or a one-element tuple (Some(v)).   *)
(* Every method is a recursive operator computed the way the Rust code     *)
(* computes it; the state machine calls the methods on one owned trie.     *)
(***************************************************************************)
EXTENDS Integers, Sequences, FiniteSets

\* ---------------------------------------------------------------- bounds
\* Largest number of non-root trie nodes an insert may leave in the trie.
MaxNodes == 2
\* Longest edge sequence given as an argument to the prefix operations.
MaxLen == 2

\* The edge identifiers (u32) and the payloads (V) the calls draw from.
EdgeIds == {1, 2}
Values == {1, 2}

SeqsUpTo(n) == UNION {[1..k -> EdgeIds] : k \in 0..n}

\* Edge sequences given to insert, and to the prefix operations.
InsertSeqs == SeqsUpTo(MaxNodes)
PrefixSeqs == SeqsUpTo(MaxLen)

\* ---------------------------------------------------------------- Option
None == <<>>
Some(v) == <<v>>
is_some(o) == o # <<>>
is_none(o) == o = <<>>

\* ---------------------------------------------------------------- PathsMap
\* Default::default()
Default == [nodes |-> <<>>, value |-> None]

is_empty(t) == t.nodes = <<>> /\ is_none(t.value)

\* Vec::swap_remove in place of Vec::remove: the last element takes the
\* place of the removed one.
VecSwapRemove(v, i) ==
    IF i = Len(v) THEN SubSeq(v, 1, Len(v) - 1)
    ELSE [k \in 1..(Len(v) - 1) |-> IF k = i THEN v[Len(v)] ELSE v[k]]

\* Vec::remove(i): the elements after position i shift left.
VecRemove(v, i) == [j \in 1..(Len(v) - 1) |-> IF j < i THEN v[j] ELSE v[j + 1]]

\* Position of the first child whose edge id is e, 0 when there is none:
\* the linear scans `for (edge, next_node) in &mut self.nodes`.
FindEdge(nodes, e) ==
    IF \E i \in DOMAIN nodes : nodes[i][1] = e
    THEN CHOOSE i \in DOMAIN nodes :
             /\ nodes[i][1] = e
             /\ \A j \in DOMAIN nodes : nodes[j][1] = e => i <= j
    ELSE 0

\* insert that keeps a value already stored at the node (keep-first).
RECURSIVE insert_keep_first(_, _, _)
insert_keep_first(t, edges, value) ==
    IF edges = <<>>
    THEN IF is_some(t.value) THEN t ELSE [t EXCEPT !.value = Some(value)]
    ELSE LET first_edge == Head(edges)
             i == FindEdge(t.nodes, first_edge)
         IN  IF i # 0
             THEN [t EXCEPT !.nodes[i] =
                      <<first_edge,
                        insert_keep_first(t.nodes[i][2], Tail(edges), value)>>]
             ELSE [t EXCEPT !.nodes =
                      Append(t.nodes,
                             <<first_edge,
                               insert_keep_first(Default, Tail(edges), value)>>)]

\* insert that, instead of descending into the child it found, replaces
\* that child by a new subtree for the remaining edges.
RECURSIVE insert_replace(_, _, _)
insert_replace(t, edges, value) ==
    IF edges = <<>>
    THEN [t EXCEPT !.value = Some(value)]
    ELSE LET first_edge == Head(edges)
             i == FindEdge(t.nodes, first_edge)
             rest == insert_replace(Default, Tail(edges), value)
         IN  IF i # 0
             THEN [t EXCEPT !.nodes[i] = <<first_edge, rest>>]
             ELSE [t EXCEPT !.nodes = Append(t.nodes, <<first_edge, rest>>)]

\* insert without the scan for an existing child: always pushes a child.
RECURSIVE insert_always_push(_, _, _)
insert_always_push(t, edges, value) ==
    IF edges = <<>>
    THEN [t EXCEPT !.value = Some(value)]
    ELSE [t EXCEPT !.nodes =
             Append(t.nodes,
                    <<Head(edges),
                      insert_always_push(Default, Tail(edges), value)>>)]

RECURSIVE insert(_, _, _)
insert(t, edges, value) ==
    IF edges = <<>>
    THEN [t EXCEPT !.value = Some(value)]
    ELSE LET first_edge == Head(edges)
             i == FindEdge(t.nodes, first_edge)
         IN  IF i # 0
             THEN [t EXCEPT !.nodes[i] =
                      <<first_edge, insert(t.nodes[i][2], Tail(edges), value)>>]
             ELSE [t EXCEPT !.nodes =
                      Append(t.nodes, <<first_edge, insert(Default, Tail(edges), value)>>)]

\* A Path of the search loop; the model gives every edge the cost 1.
Path(edges) == [edges |-> edges, cost |-> Len(edges)]

add_path(t, path) == insert(t, path.edges, path.cost)

RECURSIVE from_paths_from(_, _)
from_paths_from(result, paths) ==
    IF paths = <<>> THEN result
    ELSE from_paths_from(add_path(result, Head(paths)), Tail(paths))

from_paths(paths) == from_paths_from(Default, paths)

\* remove_first_rec that forgets `self.nodes.remove(0)` once the first
\* child has become empty.
RECURSIVE remove_first_rec_no_collapse(_, _)
remove_first_rec_no_collapse(t, cur) ==
    IF t.nodes = <<>>
    THEN [node |-> [t EXCEPT !.value = None], cur |-> cur,
          is_empty |-> TRUE, value |-> t.value, panic |-> is_none(t.value)]
    ELSE LET first_edge == t.nodes[1][1]
             r == remove_first_rec_no_collapse(t.nodes[1][2],
                                               Append(cur, first_edge))
         IN  [node |-> [t EXCEPT !.nodes[1] = <<first_edge, r.node>>],
              cur |-> r.cur, is_empty |-> FALSE, value |-> r.value,
              panic |-> r.panic]

\* remove_first_rec that descends into the last child instead of the first.
RECURSIVE remove_first_rec_last_child(_, _)
remove_first_rec_last_child(t, cur) ==
    IF t.nodes = <<>>
    THEN [node |-> [t EXCEPT !.value = None], cur |-> cur,
          is_empty |-> TRUE, value |-> t.value, panic |-> is_none(t.value)]
    ELSE LET n == Len(t.nodes)
             last_edge == t.nodes[n][1]
             r == remove_first_rec_last_child(t.nodes[n][2],
                                              Append(cur, last_edge))
         IN  IF r.is_empty
             THEN LET rest == VecRemove(t.nodes, n)
                  IN  [node |-> [t EXCEPT !.nodes = rest], cur |-> r.cur,
                       is_empty |-> rest = <<>>, value |-> r.value,
                       panic |-> r.panic]
             ELSE [node |-> [t EXCEPT !.nodes[n] = <<last_edge, r.node>>],
                   cur |-> r.cur, is_empty |-> FALSE, value |-> r.value,
                   panic |-> r.panic]

\* remove_first_rec returns the node after the call, the buffer `cur`, the
\* pair (bool, V) and whether unwrap() met None (a panic).
RECURSIVE remove_first_rec(_, _)
remove_first_rec(t, cur) ==
    IF t.nodes = <<>>
    THEN [node |-> [t EXCEPT !.value = None], cur |-> cur,
          is_empty |-> TRUE, value |-> t.value, panic |-> is_none(t.value)]
    ELSE LET first_edge == t.nodes[1][1]
             r == remove_first_rec(t.nodes[1][2], Append(cur, first_edge))
         IN  IF r.is_empty
             THEN LET rest == VecRemove(t.nodes, 1)
                  IN  [node |-> [t EXCEPT !.nodes = rest], cur |-> r.cur,
                       is_empty |-> rest = <<>>, value |-> r.value,
                       panic |-> r.panic]
             ELSE [node |-> [t EXCEPT !.nodes[1] = <<first_edge, r.node>>],
                   cur |-> r.cur, is_empty |-> FALSE, value |-> r.value,
                   panic |-> r.panic]

\* remove_first: the trie after the call, the Option<(Vec<u32>, V)> returned.
remove_first(t) ==
    IF is_empty(t)
    THEN [node |-> t, ret |-> None, panic |-> FALSE]
    ELSE LET r == remove_first_rec(t, <<>>)
         IN  IF r.panic
             THEN [node |-> r.node, ret |-> None, panic |-> TRUE]
             ELSE [node |-> r.node, ret |-> Some(<<r.cur, r.value[1]>>),
                   panic |-> FALSE]

\* iterate_rec: the calls of `visit`, in order, each <<edge sequence, value>>.
RECURSIVE iterate_rec(_, _)
RECURSIVE iterate_nodes(_, _, _)
iterate_nodes(nodes, i, cur) ==
    IF i > Len(nodes) THEN <<>>
    ELSE iterate_rec(nodes[i][2], Append(cur, nodes[i][1]))
             \o iterate_nodes(nodes, i + 1, cur)

iterate_rec(t, cur) ==
    (IF is_some(t.value) THEN << <<cur, t.value[1]>> >> ELSE <<>>)
        \o iterate_nodes(t.nodes, 1, cur)

iterate(t) == iterate_rec(t, <<>>)

\* remove_edges: the `while i < self.nodes.len()` loop from position i on.
RECURSIVE remove_edges(_, _)
RECURSIVE remove_edges_loop(_, _, _)

\* The loop without the recursive call: only this level is pruned.
RECURSIVE remove_edges_loop_top_level(_, _, _)
remove_edges_loop_top_level(nodes, i, forbidden_edges) ==
    IF ~(i <= Len(nodes)) THEN nodes
    ELSE IF nodes[i][1] \in forbidden_edges
    THEN remove_edges_loop_top_level(VecRemove(nodes, i), i, forbidden_edges)
    ELSE remove_edges_loop_top_level(nodes, i + 1, forbidden_edges)

remove_edges_loop(nodes, i, forbidden_edges) ==
    IF ~(i <= Len(nodes)) THEN nodes
    ELSE LET edge == nodes[i][1]
             child == nodes[i][2]
             recurse == edge \notin forbidden_edges /\ child.nodes # <<>>
             after == IF recurse THEN remove_edges(child, forbidden_edges)
                      ELSE child
             should_remove ==
                 IF edge \in forbidden_edges THEN TRUE
                 ELSE IF child.nodes # <<>> THEN after.nodes = <<>>
                 ELSE FALSE
         IN  IF should_remove
             THEN remove_edges_loop(VecRemove(nodes, i), i, forbidden_edges)
             ELSE remove_edges_loop([nodes EXCEPT ![i] = <<edge, after>>],
                                    i + 1, forbidden_edges)

remove_edges(t, forbidden_edges) ==
    [t EXCEPT !.nodes = remove_edges_loop(t.nodes, 1, forbidden_edges)]

\* remove_edge: the same loop for one forbidden edge.
RECURSIVE remove_edge(_, _)
RECURSIVE remove_edge_loop(_, _, _)

\* The loop with `should_remove` decided from the child as it was before
\* the recursive call (a stale emptiness test).
RECURSIVE remove_edge_loop_stale(_, _, _)
remove_edge_loop_stale(nodes, i, forbidden_edge) ==
    IF ~(i <= Len(nodes)) THEN nodes
    ELSE LET edge == nodes[i][1]
             child == nodes[i][2]
             recurse == edge # forbidden_edge /\ child.nodes # <<>>
             after == IF recurse THEN remove_edge(child, forbidden_edge)
                      ELSE child
             should_remove ==
                 IF edge = forbidden_edge THEN TRUE
                 ELSE is_empty(child)
         IN  IF should_remove
             THEN remove_edge_loop_stale(VecRemove(nodes, i), i, forbidden_edge)
             ELSE remove_edge_loop_stale([nodes EXCEPT ![i] = <<edge, after>>],
                                         i + 1, forbidden_edge)

\* The loop without the collapse: a child is removed only for its own edge.
RECURSIVE remove_edge_loop_no_collapse(_, _, _)
remove_edge_loop_no_collapse(nodes, i, forbidden_edge) ==
    IF ~(i <= Len(nodes)) THEN nodes
    ELSE LET edge == nodes[i][1]
             child == nodes[i][2]
             recurse == edge # forbidden_edge /\ child.nodes # <<>>
             after == IF recurse THEN remove_edge(child, forbidden_edge)
                      ELSE child
         IN  IF edge = forbidden_edge
             THEN remove_edge_loop_no_collapse(VecRemove(nodes, i), i,
                                               forbidden_edge)
             ELSE remove_edge_loop_no_collapse(
                      [nodes EXCEPT ![i] = <<edge, after>>], i + 1,
                      forbidden_edge)

remove_edge_loop(nodes, i, forbidden_edge) ==
    IF ~(i <= Len(nodes)) THEN nodes
    ELSE LET edge == nodes[i][1]
             child == nodes[i][2]
             recurse == edge # forbidden_edge /\ child.nodes # <<>>
             after == IF recurse THEN remove_edge(child, forbidden_edge)
                      ELSE child
             should_remove ==
                 IF edge = forbidden_edge THEN TRUE
                 ELSE IF child.nodes # <<>> THEN after.nodes = <<>>
                 ELSE FALSE
         IN  IF should_remove
             THEN remove_edge_loop(VecRemove(nodes, i), i, forbidden_edge)
             ELSE remove_edge_loop([nodes EXCEPT ![i] = <<edge, after>>],
                                   i + 1, forbidden_edge)

remove_edge(t, forbidden_edge) ==
    [t EXCEPT !.nodes = remove_edge_loop(t.nodes, 1, forbidden_edge)]

\* remove_prefix: an empty prefix clears the node; otherwise the loop
\* descends into every child whose edge is the first edge of the prefix.
RECURSIVE remove_prefix(_, _)
RECURSIVE remove_prefix_loop(_, _, _)

\* The loop without the collapse: the matching child is pruned and kept.
RECURSIVE remove_prefix_loop_no_collapse(_, _, _)
remove_prefix_loop_no_collapse(nodes, i, forbidden_prefix) ==
    IF ~(i <= Len(nodes)) THEN nodes
    ELSE LET edge == nodes[i][1]
             child == nodes[i][2]
             after == IF edge = Head(forbidden_prefix)
                      THEN remove_prefix(child, Tail(forbidden_prefix))
                      ELSE child
         IN  remove_prefix_loop_no_collapse(
                 [nodes EXCEPT ![i] = <<edge, after>>], i + 1, forbidden_prefix)

remove_prefix_loop(nodes, i, forbidden_prefix) ==
    IF ~(i <= Len(nodes)) THEN nodes
    ELSE LET first_edge == Head(forbidden_prefix)
             remaining_prefix == Tail(forbidden_prefix)
             edge == nodes[i][1]
             child == nodes[i][2]
             after == IF edge = first_edge
                      THEN remove_prefix(child, remaining_prefix)
                      ELSE child
             should_remove ==
                 IF edge = first_edge THEN after.nodes = <<>> ELSE FALSE
         IN  IF should_remove
             THEN remove_prefix_loop(VecRemove(nodes, i), i, forbidden_prefix)
             ELSE remove_prefix_loop([nodes EXCEPT ![i] = <<edge, after>>],
                                     i + 1, forbidden_prefix)

remove_prefix(t, forbidden_prefix) ==
    IF forbidden_prefix = <<>>
    THEN [t EXCEPT !.nodes = <<>>, !.value = None]
    ELSE [t EXCEPT !.nodes = remove_prefix_loop(t.nodes, 1, forbidden_prefix)]

\* remove_prefixes: remove_prefix once per visit of prefixes.iterate.
RECURSIVE remove_prefixes_visits(_, _)
remove_prefixes_visits(t, visits) ==
    IF visits = <<>> THEN t
    ELSE remove_prefixes_visits(remove_prefix(t, Head(visits)[1]), Tail(visits))

\* remove_prefixes that stops after the first visit.
remove_prefixes_first_only(t, other) ==
    LET visits == iterate(other)
    IN  IF visits = <<>> THEN t ELSE remove_prefix(t, Head(visits)[1])

remove_prefixes(t, other) == remove_prefixes_visits(t, iterate(other))

\* edge_indices_after_prefix that answers with the edges of the node where
\* the walk stopped instead of the empty list.
RECURSIVE edge_indices_where_stopped(_, _)
edge_indices_where_stopped(t, prefix) ==
    IF prefix = <<>>
    THEN [i \in 1..Len(t.nodes) |-> t.nodes[i][1]]
    ELSE LET i == FindEdge(t.nodes, Head(prefix))
         IN  IF i # 0
             THEN edge_indices_where_stopped(t.nodes[i][2], Tail(prefix))
             ELSE [j \in 1..Len(t.nodes) |-> t.nodes[j][1]]

RECURSIVE edge_indices_after_prefix(_, _)
edge_indices_after_prefix(t, prefix) ==
    IF prefix = <<>>
    THEN [i \in 1..Len(t.nodes) |-> t.nodes[i][1]]
    ELSE LET i == FindEdge(t.nodes, Head(prefix))
         IN  IF i # 0
             THEN edge_indices_after_prefix(t.nodes[i][2], Tail(prefix))
             ELSE <<>>

\* contains_prefix_of_path that looks at the value only once the whole
\* path has been walked (an exact-match lookup).
RECURSIVE contains_exact_path(_, _)
contains_exact_path(t, path) ==
    IF path = <<>> THEN is_some(t.value)
    ELSE LET i == FindEdge(t.nodes, Head(path))
         IN  IF i # 0
             THEN contains_exact_path(t.nodes[i][2], Tail(path))
             ELSE FALSE

RECURSIVE contains_prefix_of_path(_, _)
contains_prefix_of_path(t, path) ==
    IF is_some(t.value) THEN TRUE
    ELSE IF path = <<>> THEN FALSE
    ELSE LET i == FindEdge(t.nodes, Head(path))
         IN  IF i # 0
             THEN contains_prefix_of_path(t.nodes[i][2], Tail(path))
             ELSE FALSE

\* ---------------------------------------------------------------- state
\* paths    the PathsMap the search loop owns and mutates (`self`)
\* prefixes the PathsMap lent to remove_prefixes, as the call left it
\* pc       "idle", or the method that has just run and not yet returned
\* pre      the value of `paths` when that method was called
\* arg      the argument of that method
\* ret      what that method returned
\* crashed  unwrap() in remove_first_rec met None
\* batch    history: while `paths` has been built from empty by inserts of
\*          pairwise distinct sequences only, the pairs inserted
VARIABLES paths, prefixes, pc, pre, arg, ret, crashed, batch

\* The state of one run of search_with_post (routes/multi_search.rs):
\* queries         the request's queries, `params.into_inner()`
\* search_rules    the index uids the tenant token has search rules for
\* ms_pc           the handler's position: "idle" (no request), "loop",
\*                 "await", "after" (line 58), "post" (line 61),
\*                 "respond" (line 63), "done"
\* cursor          position in `queries` of the loop's current query
\* search_results  the Vec the loop pushes to
\* closure_result  the Result the async block ended with (line 32)
\* task            the spawn_blocking task the handler awaits
\* succeeded       whether multi_aggregate.succeed() was called
\* posted          the aggregates handed to analytics.post_multi_search
\* response        what the handler returned
\* events          history: the starts and ends of the blocking searches
\* failures        history: the queries that failed, with what failed
VARIABLES queries, search_rules, ms_pc, cursor, search_results,
          closure_result, task, succeeded, posted, response, events, failures

pmvars == <<paths, prefixes, pc, pre, arg, ret, crashed, batch>>

msvars == <<queries, search_rules, ms_pc, cursor, search_results,
            closure_result, task, succeeded, posted, response, events,
            failures>>

vars == <<pmvars, msvars>>

Fresh == [pure |-> TRUE, pairs |-> {}]
Tainted == [pure |-> FALSE, pairs |-> {}]

\* The history after an insert of <<edges, value>>.
BatchAfterInsert(edges, value) ==
    IF batch.pure /\ \A p \in batch.pairs : p[1] # edges
    THEN [batch EXCEPT !.pairs = @ \cup {<<edges, value>>}]
    ELSE Tainted

\* The history after a removal that left the trie `after`: an empty trie
\* is a new trie.
BatchAfterRemoval(after) == IF after = Default THEN Fresh ELSE Tainted

\* Number of trie nodes below the root (bounds the model's inserts).
RECURSIVE NodeCount(_)
RECURSIVE NodeCountFrom(_, _)
NodeCountFrom(nodes, i) ==
    IF i > Len(nodes) THEN 0
    ELSE 1 + NodeCount(nodes[i][2]) + NodeCountFrom(nodes, i + 1)

NodeCount(t) == NodeCountFrom(t.nodes, 1)

\* The batches given to from_paths for the second trie: no path, one path
\* or two paths, in either order.
PrefixPaths == {Path(s) : s \in PrefixSeqs}
PrefixBatches ==
    {<<>>} \cup {<<p>> : p \in PrefixPaths}
           \cup {<<p, q>> : p \in PrefixPaths, q \in PrefixPaths}
PrefixTries == {from_paths(b) : b \in PrefixBatches}

\* No request is being handled.
NoRequest ==
    /\ queries = <<>>
    /\ search_rules = {}
    /\ ms_pc = "idle"
    /\ cursor = 1
    /\ search_results = <<>>
    /\ closure_result = None
    /\ task = None
    /\ succeeded = FALSE
    /\ posted = <<>>
    /\ response = None
    /\ events = <<>>
    /\ failures = {}

Init ==
    /\ paths = Default
    /\ prefixes = Default
    /\ pc = "idle"
    /\ pre = Default
    /\ arg = <<>>
    /\ ret = <<>>
    /\ crashed = FALSE
    /\ batch = Fresh
    /\ NoRequest

\* The search loop calls a method only when the previous one has returned.
Ready == pc = "idle" /\ ~crashed

Call(op, a, r, after) ==
    /\ pc' = op
    /\ pre' = paths
    /\ arg' = a
    /\ ret' = r
    /\ paths' = after
    /\ UNCHANGED msvars

Insert ==
    /\ Ready
    /\ \E edges \in InsertSeqs, value \in Values :
           LET after == insert(paths, edges, value)
           IN  /\ NodeCount(after) <= MaxNodes
               /\ Call("insert", <<edges, value>>, <<>>, after)
               /\ batch' = BatchAfterInsert(edges, value)
               /\ UNCHANGED <<prefixes, crashed>>

RemoveFirst ==
    /\ Ready
    /\ LET r == remove_first(paths)
       IN  /\ Call("remove_first", <<>>, r.ret, r.node)
           /\ crashed' = r.panic
           /\ batch' = BatchAfterRemoval(r.node)
           /\ UNCHANGED prefixes

Iterate ==
    /\ Ready
    /\ Call("iterate", <<>>, iterate(paths), paths)
    /\ UNCHANGED <<prefixes, crashed, batch>>

IsEmpty ==
    /\ Ready
    /\ Call("is_empty", <<>>, is_empty(paths), paths)
    /\ UNCHANGED <<prefixes, crashed, batch>>

RemoveEdges ==
    /\ Ready
    /\ \E forbidden_edges \in SUBSET EdgeIds :
           LET after == remove_edges(paths, forbidden_edges)
           IN  /\ Call("remove_edges", forbidden_edges, <<>>, after)
               /\ batch' = BatchAfterRemoval(after)
               /\ UNCHANGED <<prefixes, crashed>>

RemoveEdge ==
    /\ Ready
    /\ \E forbidden_edge \in EdgeIds :
           LET after == remove_edge(paths, forbidden_edge)
           IN  /\ Call("remove_edge", forbidden_edge, <<>>, after)
               /\ batch' = BatchAfterRemoval(after)
               /\ UNCHANGED <<prefixes, crashed>>

RemovePrefix ==
    /\ Ready
    /\ \E forbidden_prefix \in PrefixSeqs :
           LET after == remove_prefix(paths, forbidden_prefix)
           IN  /\ Call("remove_prefix", forbidden_prefix, <<>>, after)
               /\ batch' = BatchAfterRemoval(after)
               /\ UNCHANGED <<prefixes, crashed>>

\* The caller builds the second trie with from_paths and lends it to
\* remove_prefixes (`prefixes: &PathsMap<U>`, an immutable borrow).
RemovePrefixes ==
    /\ Ready
    /\ \E other \in PrefixTries :
           LET after == remove_prefixes(paths, other)
           IN  /\ prefixes' = other
               /\ Call("remove_prefixes", other, <<>>, after)
               /\ batch' = BatchAfterRemoval(after)
               /\ UNCHANGED crashed

EdgeIndicesAfterPrefix ==
    /\ Ready
    /\ \E prefix \in PrefixSeqs :
           /\ Call("edge_indices_after_prefix", prefix,
                   edge_indices_after_prefix(paths, prefix), paths)
           /\ UNCHANGED <<prefixes, crashed, batch>>

ContainsPrefixOfPath ==
    /\ Ready
    /\ \E path \in PrefixSeqs :
           /\ Call("contains_prefix_of_path", path,
                   contains_prefix_of_path(paths, path), paths)
           /\ UNCHANGED <<prefixes, crashed, batch>>

\* The method returns to the search loop; the second trie is dropped.
Return ==
    /\ pc # "idle"
    /\ ~crashed
    /\ pc' = "idle"
    /\ pre' = Default
    /\ arg' = <<>>
    /\ ret' = <<>>
    /\ prefixes' = Default
    /\ UNCHANGED <<paths, crashed, batch>>
    /\ UNCHANGED msvars

Next ==
    \/ Insert
    \/ RemoveFirst
    \/ Iterate
    \/ IsEmpty
    \/ RemoveEdges
    \/ RemoveEdge
    \/ RemovePrefix
    \/ RemovePrefixes
    \/ EdgeIndicesAfterPrefix
    \/ ContainsPrefixOfPath
    \/ Return

Spec == Init /\ [][Next]_vars

\* ------------------------------------------------- the pruning scenario
\* The pairs of the scenario of the pruning methods: edge ids 1..4 and the
\* costs 5, 7 and 2.
ScenarioPairs == {<< <<1, 2>>, 5 >>, << <<1, 3>>, 7 >>, << <<4>>, 2 >>}

\* The scenario's trie: the three pairs inserted in the order given.
ScenarioTrie ==
    from_paths(<< [edges |-> <<1, 2>>, cost |-> 5],
                  [edges |-> <<1, 3>>, cost |-> 7],
                  [edges |-> <<4>>, cost |-> 2] >>)

\* insert called with one of the scenario's pairs, on any trie that stays
\* within the size of the scenario's trie.
ScenarioInsert ==
    /\ Ready
    /\ \E p \in ScenarioPairs :
           LET after == insert(paths, p[1], p[2])
           IN  /\ NodeCount(after) <= NodeCount(ScenarioTrie)
               /\ Call("insert", p, <<>>, after)
               /\ batch' = BatchAfterInsert(p[1], p[2])
               /\ UNCHANGED <<prefixes, crashed>>

\* The methods that create, remove or take children.
ScenarioNext ==
    \/ ScenarioInsert
    \/ Insert
    \/ RemoveFirst
    \/ RemoveEdges
    \/ RemoveEdge
    \/ RemovePrefix
    \/ Return

ScenarioSpec == Init /\ [][ScenarioNext]_vars

\* --------------------------------------------------------- multi-search
\* Bound of the model: the longest request.
MaxQueries == 2

IndexUids == {"movies", "books"}

\* SearchQueryWithIndex: an index uid and the rest of the query.
SearchQueryWithIndex == [index_uid : IndexUids, q : {"x", "y"}]

\* The bodies `params` can hold.
Requests == UNION {[1..n -> SearchQueryWithIndex] : n \in 0..MaxQueries}

Ok(v) == <<"Ok", v>>
Err(e) == <<"Err", e>>
is_ok(r) == r[1] = "Ok"

\* The query the loop hands to perform_search: into_index_query, then
\* add_search_rules when the tenant token has rules for the index.
QueryFor(sq) ==
    [q |-> sq.q,
     filter |-> IF sq.index_uid \in search_rules
                THEN Some(sq.index_uid) ELSE None]

\* What perform_search(&index, query) returns when it succeeds.
SearchResult(index_uid, query) == [index |-> index_uid, query |-> query]

\* A request arrives: the handler takes the queries and builds the
\* aggregate, not yet marked as succeeded.
Receive ==
    /\ ms_pc = "idle"
    /\ \E params \in Requests, rules \in SUBSET IndexUids :
           /\ queries' = params
           /\ search_rules' = rules
    /\ ms_pc' = "loop"
    /\ cursor' = 1
    /\ search_results' = <<>>
    /\ succeeded' = FALSE
    /\ UNCHANGED <<closure_result, task, posted, response, events, failures>>
    /\ UNCHANGED pmvars

\* One turn of the loop up to the await: the index lookup fails and `?`
\* ends the async block, or the search is spawned on the blocking pool.
NextQuery ==
    /\ ms_pc = "loop"
    /\ cursor <= Len(queries)
    /\ \/ /\ task' = Some([query |-> cursor,
                           index_uid |-> queries[cursor].index_uid,
                           search |-> QueryFor(queries[cursor]),
                           status |-> "running"])
          /\ events' = Append(events, <<"start", cursor>>)
          /\ ms_pc' = "await"
          /\ UNCHANGED <<closure_result, failures>>
       \/ /\ closure_result' = Some(Err([kind |-> "index", query |-> cursor]))
          /\ failures' = failures \cup {[kind |-> "index", query |-> cursor]}
          /\ ms_pc' = "after"
          /\ UNCHANGED <<task, events>>
    /\ UNCHANGED <<queries, search_rules, cursor, search_results, succeeded,
                   posted, response>>
    /\ UNCHANGED pmvars

\* The queries are exhausted: the async block ends with Ok(search_results).
LoopEnd ==
    /\ ms_pc = "loop"
    /\ cursor > Len(queries)
    /\ closure_result' = Some(Ok(search_results))
    /\ ms_pc' = "after"
    /\ UNCHANGED <<queries, search_rules, cursor, search_results, task,
                   succeeded, posted, response, events, failures>>
    /\ UNCHANGED pmvars

\* The closure given to spawn_blocking ends on the blocking pool:
\* perform_search returned Ok or Err, or the task panicked.
PerformSearch ==
    /\ task # None
    /\ task[1].status = "running"
    /\ \E status \in {"ok", "err", "panicked"} :
           /\ task' = Some([task[1] EXCEPT !.status = status])
           /\ failures' =
                  IF status = "ok" THEN failures
                  ELSE failures \cup
                           {[kind |-> IF status = "err" THEN "search"
                                      ELSE "join",
                             query |-> task[1].query]}
    /\ events' = Append(events, <<"end", task[1].query>>)
    /\ UNCHANGED <<queries, search_rules, ms_pc, cursor, search_results,
                   closure_result, succeeded, posted, response>>
    /\ UNCHANGED pmvars

\* The handler leaves the async block with the error e.
Fail(e) ==
    /\ closure_result' = Some(Err(e))
    /\ ms_pc' = "after"
    /\ UNCHANGED <<cursor, search_results>>

\* An await that drops a failed search and goes on with the next query.
AwaitSkipFailed ==
    /\ ms_pc = "await"
    /\ task # None
    /\ task[1].status # "running"
    /\ IF task[1].status = "ok"
       THEN /\ search_results' =
                   Append(search_results,
                          [index_uid |-> task[1].index_uid,
                           result |-> SearchResult(task[1].index_uid,
                                                   task[1].search)])
            /\ cursor' = cursor + 1
            /\ ms_pc' = "loop"
            /\ UNCHANGED closure_result
       ELSE /\ cursor' = cursor + 1
            /\ ms_pc' = "loop"
            /\ UNCHANGED <<search_results, closure_result>>
    /\ task' = None
    /\ UNCHANGED <<queries, search_rules, succeeded, posted, response,
                   events, failures>>
    /\ UNCHANGED pmvars

\* The handler resumes from `.await`: a join error or a search error ends
\* the async block through `?`, a result is pushed and the loop goes on.
Await ==
    /\ ms_pc = "await"
    /\ task # None
    /\ task[1].status # "running"
    /\ CASE task[1].status = "panicked" ->
                Fail([kind |-> "join", query |-> cursor])
         [] task[1].status = "err" ->
                Fail([kind |-> "search", query |-> cursor])
         [] task[1].status = "ok" ->
                /\ search_results' =
                       Append(search_results,
                              [index_uid |-> task[1].index_uid,
                               result |-> SearchResult(task[1].index_uid,
                                                       task[1].search)])
                /\ cursor' = cursor + 1
                /\ ms_pc' = "loop"
                /\ UNCHANGED closure_result
    /\ task' = None
    /\ UNCHANGED <<queries, search_rules, succeeded, posted, response,
                   events, failures>>
    /\ UNCHANGED pmvars

\* `if search_results.is_ok() { multi_aggregate.succeed(); }`
Succeed ==
    /\ ms_pc = "after"
    /\ succeeded' = IF is_ok(closure_result[1]) THEN TRUE ELSE succeeded
    /\ ms_pc' = "post"
    /\ UNCHANGED <<queries, search_rules, cursor, search_results,
                   closure_result, task, posted, response, events, failures>>
    /\ UNCHANGED pmvars

\* A handler that posts the aggregate of a succeeded request only.
PostOnlySucceeded ==
    /\ ms_pc = "post"
    /\ posted' = IF succeeded
                 THEN Append(posted, [succeeded |-> succeeded,
                                      total |-> Len(queries)])
                 ELSE posted
    /\ ms_pc' = "respond"
    /\ UNCHANGED <<queries, search_rules, cursor, search_results,
                   closure_result, task, succeeded, response, events,
                   failures>>
    /\ UNCHANGED pmvars

\* `analytics.post_multi_search(multi_aggregate);`
PostMultiSearch ==
    /\ ms_pc = "post"
    /\ posted' = Append(posted, [succeeded |-> succeeded,
                                 total |-> Len(queries)])
    /\ ms_pc' = "respond"
    /\ UNCHANGED <<queries, search_rules, cursor, search_results,
                   closure_result, task, succeeded, response, events,
                   failures>>
    /\ UNCHANGED pmvars

\* `let search_results = search_results?;` returns the error, otherwise
\* the handler returns 200 with the results as the body.
Respond ==
    /\ ms_pc = "respond"
    /\ response' =
           IF is_ok(closure_result[1])
           THEN Some(Ok([status |-> 200, body |-> closure_result[1][2]]))
           ELSE Some(closure_result[1])
    /\ ms_pc' = "done"
    /\ UNCHANGED <<queries, search_rules, cursor, search_results,
                   closure_result, task, succeeded, posted, events, failures>>
    /\ UNCHANGED pmvars

\* The handler's future is dropped; the next request starts a new one.
NextRequest ==
    /\ ms_pc = "done"
    /\ ms_pc' = "idle"
    /\ queries' = <<>>
    /\ search_rules' = {}
    /\ cursor' = 1
    /\ search_results' = <<>>
    /\ closure_result' = None
    /\ task' = None
    /\ succeeded' = FALSE
    /\ posted' = <<>>
    /\ response' = None
    /\ events' = <<>>
    /\ failures' = {}
    /\ UNCHANGED pmvars

MultiSearchNext ==
    \/ Receive
    \/ NextQuery
    \/ LoopEnd
    \/ PerformSearch
    \/ Await
    \/ Succeed
    \/ PostMultiSearch
    \/ Respond
    \/ NextRequest

MultiSearchSpec == Init /\ [][MultiSearchNext]_vars

\* ---------------------------------------------------------------- claims
Range(s) == {s[i] : i \in DOMAIN s}

IsPrefix(p, q) == Len(p) <= Len(q) /\ SubSeq(q, 1, Len(p)) = p

Occurs(e, edges) == \E i \in DOMAIN edges : edges[i] = e

\* The complete paths a trie stores: <<edge sequence, value>> for every
\* node that holds a value.
RECURSIVE StoredFrom(_, _)
StoredFrom(t, cur) ==
    (IF t.value # <<>> THEN {<<cur, t.value[1]>>} ELSE {})
        \cup UNION {StoredFrom(t.nodes[i][2], Append(cur, t.nodes[i][1])) :
                        i \in DOMAIN t.nodes}

Stored(t) == StoredFrom(t, <<>>)

\* The nodes reached from t by following prefix edge by edge.
RECURSIVE NodesAt(_, _)
NodesAt(t, prefix) ==
    IF prefix = <<>> THEN {t}
    ELSE UNION {NodesAt(t.nodes[i][2], Tail(prefix)) :
                    i \in {j \in DOMAIN t.nodes : t.nodes[j][1] = Head(prefix)}}

\* No node below t is empty (no children and no value).
RECURSIVE NoEmptyChild(_)
NoEmptyChild(t) ==
    \A i \in DOMAIN t.nodes :
        /\ ~is_empty(t.nodes[i][2])
        /\ NoEmptyChild(t.nodes[i][2])

\* Draining: remove_first called until it returns None; `out` is what the
\* calls returned, in order, `node` the trie left.
RECURSIVE Drain(_)
Drain(t) ==
    LET r == remove_first(t)
    IN  IF r.panic THEN [out |-> <<>>, node |-> r.node, panic |-> TRUE]
        ELSE IF r.ret = None
        THEN [out |-> <<>>, node |-> r.node, panic |-> FALSE]
        ELSE LET d == Drain(r.node)
             IN  [out |-> <<r.ret[1]>> \o d.out, node |-> d.node,
                  panic |-> d.panic]

Removals == {"remove_first", "remove_edge", "remove_edges", "remove_prefix",
             "remove_prefixes"}

\* C1: a trie built from empty by inserts of pairwise distinct sequences
\* (prefixes of one another and the empty sequence included) drains, by
\* repeated remove_first, to exactly the inserted pairs, each once, and is
\* empty afterwards.
C1_RoundTrip ==
    batch.pure =>
        LET d == Drain(paths)
        IN  /\ ~d.panic
            /\ Range(d.out) = batch.pairs
            /\ Len(d.out) = Cardinality(batch.pairs)
            /\ is_empty(d.node)

\* C2: after remove_edge(e) the stored paths are exactly the paths stored
\* before whose edge sequence does not contain e.
C2_RemoveEdgePrecise ==
    pc = "remove_edge" =>
        Stored(paths) = {p \in Stored(pre) : ~Occurs(arg, p[1])}

\* C3: after remove_prefix(seq) the stored paths are exactly the paths
\* stored before of which seq is not a literal prefix.
C3_RemovePrefixPrecise ==
    pc = "remove_prefix" =>
        Stored(paths) = {p \in Stored(pre) : ~IsPrefix(arg, p[1])}

\* C4: collapse invariant: after any sequence of calls no node other than
\* the root has both an empty children list and no value.
C4_CollapseInvariant == NoEmptyChild(paths)

\* C4 witness: remove_first took the only path of a chain of two nodes and
\* the collapse went up to the root.
C4_Witness ==
    /\ pc = "remove_first"
    /\ NodeCount(pre) >= 2
    /\ Len(pre.nodes) = 1
    /\ is_none(pre.nodes[1][2].value)
    /\ paths.nodes = <<>>

\* C5: contains_prefix_of_path(C) is true iff some stored complete path
\* (the root's empty path included) is a literal prefix of C; it is false
\* on an empty trie.
C5_ContainsPrefixOfPath ==
    pc = "contains_prefix_of_path" =>
        /\ ret = (\E p \in Stored(paths) : IsPrefix(p[1], arg))
        /\ is_empty(paths) => ret = FALSE

\* C5 witness: a stored non-empty path strictly shorter than the candidate
\* made the answer true.
C5_Witness ==
    /\ pc = "contains_prefix_of_path"
    /\ ret = TRUE
    /\ is_none(paths.value)
    /\ \E p \in Stored(paths) : IsPrefix(p[1], arg) /\ Len(p[1]) < Len(arg)

\* C6: after B.remove_prefixes(A) no path still stored in B has a complete
\* path of A as a literal prefix, and A is as it was lent (arg); with
\* A = {[1] -> 1} and B = {[1,2] -> v} the call leaves B empty.
C6_RemovePrefixes ==
    pc = "remove_prefixes" =>
        /\ \A p \in Stored(paths) : ~contains_prefix_of_path(prefixes, p[1])
        /\ \A p \in Stored(paths) :
               \A q \in Stored(prefixes) : ~IsPrefix(q[1], p[1])
        /\ prefixes = arg
        /\ (/\ prefixes = from_paths(<<Path(<<1>>)>>)
            /\ \E v \in Values : pre = insert(Default, <<1, 2>>, v))
               => is_empty(paths)

\* C6 witness: the scenario A = {[1] -> 1}, B = {[1,2] -> v}.
C6_Witness ==
    /\ pc = "remove_prefixes"
    /\ Stored(prefixes) = {<<(<<1>>), 1>>}
    /\ \E v \in Values : Stored(pre) = {<<(<<1, 2>>), v>>}
    /\ is_empty(paths)

\* C7: insert(s, v) leaves exactly one entry for s, carrying v, whatever
\* was stored at s before; iterate visits s once, with v; a drain never
\* yields s with another value; the other entries are unchanged.
C7_InsertOverwrites ==
    pc = "insert" =>
        LET s == arg[1]
            v == arg[2]
            visits == iterate(paths)
            out == Drain(paths).out
        IN  /\ Stored(paths) = {p \in Stored(pre) : p[1] # s} \cup {<<s, v>>}
            /\ Cardinality({i \in DOMAIN visits : visits[i][1] = s}) = 1
            /\ \A i \in DOMAIN visits : visits[i][1] = s => visits[i][2] = v
            /\ \A i \in DOMAIN out : out[i][1] = s => out[i][2] = v

\* C7 witness: the insert replaced a different value stored at the same
\* sequence while another sequence was stored too.
C7_Witness ==
    /\ pc = "insert"
    /\ \E p \in Stored(pre) : p[1] = arg[1] /\ p[2] # arg[2]
    /\ \E p \in Stored(pre) : p[1] # arg[1]

\* C8: edge_indices_after_prefix(prefix) returns the edge ids of the
\* children of the node reached by following prefix, in sibling order (the
\* top-level edge ids for the empty prefix), the empty list when a step of
\* prefix has no matching child, and leaves the trie as it was.
C8_EdgeIndicesAfterPrefix ==
    pc = "edge_indices_after_prefix" =>
        /\ paths = pre
        /\ NodesAt(paths, arg) = {} => ret = <<>>
        /\ \A n \in NodesAt(paths, arg) :
               ret = [i \in 1..Len(n.nodes) |-> n.nodes[i][1]]
        /\ arg = <<>> =>
               ret = [i \in 1..Len(paths.nodes) |-> paths.nodes[i][1]]

\* C8 witness: a non-empty prefix led to a node with children.
C8_Witness ==
    /\ pc = "edge_indices_after_prefix"
    /\ arg # <<>>
    /\ ret # <<>>

\* C8 witness of the failing walk: a step of the prefix had no child while
\* the trie had children.
C8_WitnessNoMatch ==
    /\ pc = "edge_indices_after_prefix"
    /\ paths.nodes # <<>>
    /\ NodesAt(paths, arg) = {}

\* C9: remove_edge, remove_edges and remove_prefix are idempotent: the same
\* call made again right after the first leaves the trie as the first call
\* left it.
C9_PruningIdempotent ==
    /\ pc = "remove_edge" => remove_edge(paths, arg) = paths
    /\ pc = "remove_edges" => remove_edges(paths, arg) = paths
    /\ pc = "remove_prefix" => remove_prefix(paths, arg) = paths

\* C9 witness: a remove_edge call removed something and left something.
C9_Witness ==
    /\ pc = "remove_edge"
    /\ paths # pre
    /\ ~is_empty(paths)

\* C10: iterate visits every node holding a value exactly once, with its
\* edge sequence and value, in the order in which repeated remove_first
\* calls would yield the paths, and leaves the trie unchanged.
C10_IterateInDrainOrder ==
    pc = "iterate" =>
        /\ paths = pre
        /\ Range(ret) = Stored(paths)
        /\ Len(ret) = Cardinality(Stored(paths))
        /\ ret = Drain(paths).out

\* C11: remove_first never applies unwrap() to an absent value: on every
\* reachable trie it returns None (exactly when the trie is empty) or a
\* path and its value.
C11_RemoveFirstNeverPanics ==
    /\ ~crashed
    /\ ~remove_first(paths).panic
    /\ pc = "remove_first" => (is_none(ret) <=> is_empty(pre))

\* C11 witness: remove_first returned a path and left a non-empty trie.
C11_Witness ==
    /\ pc = "remove_first"
    /\ is_some(ret)
    /\ ~is_empty(paths)

\* C12: a remove_first call that returns a pair removes that pair and
\* nothing else: every other stored path, a proper prefix of the returned
\* one included, is still stored with its value.
C12_RemoveFirstTakesOne ==
    (pc = "remove_first" /\ is_some(ret)) =>
        /\ ret[1] \in Stored(pre)
        /\ Stored(paths) = Stored(pre) \ {ret[1]}

\* No node of t has two children with the same edge id.
RECURSIVE NoDuplicateSiblings(_)
NoDuplicateSiblings(t) ==
    /\ \A i, j \in DOMAIN t.nodes : t.nodes[i][1] = t.nodes[j][1] => i = j
    /\ \A i \in DOMAIN t.nodes : NoDuplicateSiblings(t.nodes[i][2])

\* C14: sibling uniqueness: in every reachable trie no node has two
\* children with the same edge id.
C14_SiblingsUnique == NoDuplicateSiblings(paths)

\* C14 witness: an insert of a sequence of two edges went through a child
\* that existed already.
C14_Witness ==
    /\ pc = "insert"
    /\ Len(arg[1]) >= 2
    /\ FindEdge(pre.nodes, arg[1][1]) # 0
    /\ paths # pre

\* C16: every edge id that edge_indices_after_prefix(p) returns leads to a
\* stored path: some stored complete path has p followed by the edge as a
\* literal prefix.
C16_FrontierViable ==
    pc = "edge_indices_after_prefix" =>
        \A i \in DOMAIN ret :
            \E q \in Stored(paths) : IsPrefix(Append(arg, ret[i]), q[1])

\* C16 witness: edges were returned for a trie that had been pruned or
\* overwritten since it was last empty.
C16_Witness ==
    /\ pc = "edge_indices_after_prefix"
    /\ ret # <<>>
    /\ ~batch.pure

\* The orders in which the elements of a finite set can be taken.
Orders(S) ==
    {o \in [1..Cardinality(S) -> S] :
         \A i, j \in DOMAIN o : o[i] = o[j] => i = j}

\* remove_edge called once for each edge of `order`, in that order.
RECURSIVE RemoveEdgeEach(_, _)
RemoveEdgeEach(t, order) ==
    IF order = <<>> THEN t
    ELSE RemoveEdgeEach(remove_edge(t, Head(order)), Tail(order))

\* C17: remove_edges(S) leaves the trie in the state that remove_edge(e),
\* called once for each e in S in any order, leaves it in; remove_edges of
\* the empty set changes nothing.
C17_RemoveEdgesAsRemoveEdge ==
    pc = "remove_edges" =>
        /\ \A o \in Orders(arg) : paths = RemoveEdgeEach(pre, o)
        /\ arg = {} => paths = pre

\* C17 witness: remove_edges pruned a path of two edges for its second
\* edge.
C17_Witness ==
    /\ pc = "remove_edges"
    /\ paths # pre
    /\ \E p \in Stored(pre) :
           Len(p[1]) = 2 /\ p[1][1] \notin arg /\ p[1][2] \in arg

\* No stored sequence is a proper prefix of another stored sequence.
PrefixFree(t) ==
    \A p, q \in Stored(t) : p[1] # q[1] => ~IsPrefix(p[1], q[1])

\* C18: on a trie in which no stored sequence is a proper prefix of
\* another, a remove_first call removes exactly the pair it returns, and a
\* drain returns every stored pair once, in the order of iterate, in as
\* many calls as there are stored paths, and leaves the trie empty.
C18_PrefixFreeDrain ==
    /\ PrefixFree(paths) =>
           LET d == Drain(paths)
           IN  /\ ~d.panic
               /\ d.out = iterate(paths)
               /\ Range(d.out) = Stored(paths)
               /\ Len(d.out) = Cardinality(Stored(paths))
               /\ is_empty(d.node)
    /\ (pc = "remove_first" /\ PrefixFree(pre) /\ is_some(ret)) =>
           /\ ret[1] \in Stored(pre)
           /\ Stored(paths) = Stored(pre) \ {ret[1]}

\* C18 witness: remove_first took one of several paths of a prefix-free
\* trie.
C18_Witness ==
    /\ pc = "remove_first"
    /\ PrefixFree(pre)
    /\ Cardinality(Stored(pre)) >= 2
    /\ is_some(ret)

\* The trie from_paths builds from the pairs of `order`, in that order.
FromPairs(order) ==
    from_paths([i \in DOMAIN order |->
                   [edges |-> order[i][1], cost |-> order[i][2]]])

\* C15: a batch of pairs with pairwise distinct sequences, inserted in any
\* order, gives a trie that stores the same pairs, answers
\* contains_prefix_of_path alike and returns the same set of edge ids from
\* edge_indices_after_prefix; only the sibling order may differ. A batch
\* grows by insert only, so the tries are compared when insert has run.
C15_InsertionOrderIrrelevant ==
    (pc = "insert" /\ batch.pure) =>
        /\ Stored(paths) = batch.pairs
        /\ \A o \in Orders(batch.pairs) :
               LET other == FromPairs(o)
               IN  /\ Stored(other) = Stored(paths)
                   /\ Range(iterate(other)) = Range(iterate(paths))
                   /\ \A c \in PrefixSeqs :
                          /\ contains_prefix_of_path(other, c)
                                 = contains_prefix_of_path(paths, c)
                          /\ Range(edge_indices_after_prefix(other, c))
                                 = Range(edge_indices_after_prefix(paths, c))

\* C15 witness: another order of the inserted batch gives a trie with a
\* different sibling order.
C15_Witness ==
    /\ pc = "insert"
    /\ batch.pure
    /\ Cardinality(batch.pairs) >= 2
    /\ \E o \in Orders(batch.pairs) : FromPairs(o) # paths

\* The path remove_first follows: the first child at every level, down to
\* a node without children.
RECURSIVE Leftmost(_)
Leftmost(t) ==
    IF t.nodes = <<>> THEN [edges |-> <<>>, value |-> t.value]
    ELSE LET l == Leftmost(t.nodes[1][2])
         IN  [l EXCEPT !.edges = <<t.nodes[1][1]>> \o @]

\* The edge ids of a node's children, in sibling order.
SiblingEdges(t) == [i \in DOMAIN t.nodes |-> t.nodes[i][1]]

\* `after` holds, at every level, children of `before` only, in the order
\* they have in `before`.
RECURSIVE OrderKept(_, _)
OrderKept(before, after) ==
    /\ SiblingEdges(after)
           = SelectSeq(SiblingEdges(before),
                       LAMBDA e : e \in Range(SiblingEdges(after)))
    /\ \A i \in DOMAIN after.nodes :
           LET j == FindEdge(before.nodes, after.nodes[i][1])
           IN  j # 0 /\ OrderKept(before.nodes[j][2], after.nodes[i][2])

\* `after` holds, at every level, the children of `before` at their
\* positions, and new children only behind them.
RECURSIVE AppendedOnly(_, _)
AppendedOnly(before, after) ==
    /\ IsPrefix(SiblingEdges(before), SiblingEdges(after))
    /\ \A i \in DOMAIN before.nodes :
           AppendedOnly(before.nodes[i][2], after.nodes[i][2])

\* C13: remove_first returns the path that follows the first child at every
\* level down to a node without children, with that node's value; insert
\* puts a new child behind its siblings and moves none, and no removal
\* reorders the surviving siblings, so sibling order is creation order.
\* After insert [1,2]->5, [1,3]->7, [4]->2 and remove_edge(2), draining
\* yields [1,3] and then [4].
C13_LeftmostFirst ==
    /\ (pc = "remove_first" /\ is_some(ret)) =>
           /\ ret[1][1] = Leftmost(pre).edges
           /\ Some(ret[1][2]) = Leftmost(pre).value
    /\ pc = "insert" => AppendedOnly(pre, paths)
    /\ pc \in Removals => OrderKept(pre, paths)
    /\ (pc = "remove_edge" /\ arg = 2 /\ pre = ScenarioTrie) =>
           Drain(paths).out = << << <<1, 3>>, 7 >>, << <<4>>, 2 >> >>

\* C13 witness: the scenario's remove_edge(2) has run on the scenario's
\* trie, and the first removal that follows takes [1,3] and leaves [4]
\* in front.
C13_Witness ==
    /\ pc = "remove_edge" /\ arg = 2 /\ pre = ScenarioTrie
    /\ paths # pre
    /\ remove_first(paths).ret = Some(<< <<1, 3>>, 7 >>)
    /\ Leftmost(remove_first(paths).node).edges = <<4>>

\* Every query of the request was searched to its end and none failed.
EveryQuerySucceeded ==
    /\ failures = {}
    /\ \A k \in DOMAIN queries : \E n \in DOMAIN events : events[n] = <<"end", k>>

\* C19: post_multi_search is called exactly once for a request, whether
\* its searches succeed or fail, and before the handler returns its
\* response or error; the posted aggregate is marked succeeded exactly
\* when every query's index lookup, task join and search succeeded.
C19_AnalyticsPostedOnce ==
    /\ Len(posted) <= 1
    /\ ms_pc \in {"idle", "loop", "await", "after", "post"} =>
           posted = <<>> /\ response = None
    /\ ms_pc = "respond" => Len(posted) = 1 /\ response = None
    /\ ms_pc = "done" => Len(posted) = 1 /\ response # None
    /\ posted # <<>> => (posted[1].succeeded <=> EveryQuerySucceeded)
    /\ succeeded => EveryQuerySucceeded

\* C19 witness: a request whose second or later query failed has returned,
\* and its aggregate was posted once, not marked succeeded.
C19_Witness ==
    /\ ms_pc = "done"
    /\ failures # {}
    /\ search_results # <<>>
    /\ Len(posted) = 1
    /\ ~posted[1].succeeded
    /\ ~is_ok(response[1])

\* The results a successful request returns: one per query, in the order
\* of the queries.
ExpectedResults ==
    [k \in DOMAIN queries |->
        [index_uid |-> queries[k].index_uid,
         result |-> SearchResult(queries[k].index_uid, QueryFor(queries[k]))]]

\* C20: the blocking searches run one at a time in request order, each
\* started only after the one before it has ended; at most one query
\* fails, no search is started for a query behind it, and the request
\* returns that query's error and no results; a request without a failure
\* returns one result per query, in the order of the queries.
C20_SequentialInOrder ==
    /\ \A n \in DOMAIN events :
           events[n] = <<IF n % 2 = 1 THEN "start" ELSE "end", (n + 1) \div 2>>
    /\ Cardinality(failures) <= 1
    /\ \A f \in failures : \A n \in DOMAIN events : events[n][2] <= f.query
    /\ \A f \in failures : Len(search_results) = f.query - 1
    /\ response # None =>
           IF failures # {}
           THEN \E f \in failures : response[1] = Err(f)
           ELSE response[1] = Ok([status |-> 200, body |-> ExpectedResults])

\* C20 witness: a request has returned the error of a failed search while
\* a later query of the request was never searched.
C20_Witness ==
    /\ ms_pc = "done"
    /\ ~is_ok(response[1])
    /\ \E f \in failures :
           /\ f.kind = "search"
           /\ f.query < Len(queries)
           /\ events[Len(events)] = <<"end", f.query>>

====
